---- MODULE Spec2Model ----
(***************************************************************************)
(* Model of app/main.py, the economic-indices pipeline: the download       *)
(* watcher, the spreadsheet normalizer, dataset provisioning, the refined  *)
(* join with its look-back percentage change, and main()'s orchestration.  *)
(*                                                                         *)
(* Five specifications share this module, one per part of the program:     *)
(*   SpecWatch      wait_for_file_download against a changing folder       *)
(*   SpecExcel      process_excel_file over bounded sheets                 *)
(*   SpecProvision  create_bigquery_dataset / create_trusted_dataset       *)
(*   SpecRefined    transform_refined_data over bounded trusted tables     *)
(*   SpecMain       executions of main() sharing one warehouse             *)
(* The variables of the parts a specification does not use stay at their   *)
(* idle initial value.                                                     *)
(***************************************************************************)
EXTENDS Integers, Sequences, FiniteSets, TLC

VARIABLES
    \* ---- wait_for_file_download
    folder,         \* os.listdir(folder): the set of file names in the folder
    files_before,   \* the snapshot taken before the click
    start_time,     \* time.time() at the snapshot
    now,            \* the clock, in seconds
    appeared,       \* history: <<file, second>>, when each file in the folder appeared
    wpc,            \* position inside wait_for_file_download
    wresult,        \* how the call ended
    \* ---- process_excel_file
    sheet_found,    \* whether the workbook holds a sheet called sheet_name
    sheet,          \* the sheet: [width |-> columns, height |-> rows], header included
    x_table_id,     \* the table_id argument
    x_columns,      \* the columns argument
    x_num_rows,     \* the num_rows argument
    xpc,            \* "call" before process_excel_file ran, "done" after
    xresult,        \* how the call ended, and the DataFrame it returned
    \* ---- the warehouse's datasets
    datasets,       \* the dataset ids that exist
    created,        \* history: how many times each dataset id was created
    \* ---- callers of create_bigquery_dataset / create_trusted_dataset
    cpc,            \* each caller's position inside the function
    cfun,           \* the function a caller is in
    cid,            \* the dataset id a caller's call is about
    cres,           \* how a caller's last call ended
    ccalls,         \* how many calls a caller has made
    \* ---- transform_refined_data
    icc_trusted,    \* rows [mes, val] of the table icc_trusted
    icf_trusted,    \* rows [mes, val] of the table icf_trusted
    refined,        \* the rows of icf_icc_refined, in the order of the query's result
    rpc,            \* "call" before transform_refined_data ran, "done" after
    \* ---- main()
    pc,             \* each execution's position in main()
    dataset_uuid,   \* each execution's uuid.uuid4().hex[:6]
    layer,          \* the layer whose dataset the execution is provisioning
    index,          \* each execution's position in the list of indices
    filepath,       \* the path the execution's last download wait returned
    exc,            \* whether an exception is propagating out of the try block
    outcome,        \* "running", "returned" or "raised"
    log,            \* history: the steps the execution took, in order
    ddir,           \* each execution's download directory
    tables,         \* the warehouse's tables: table id -> the loads they hold
    writes          \* history: <<execution, table id>> for every table write

watchVars == <<folder, files_before, start_time, now, appeared, wpc, wresult>>
excelVars == <<sheet_found, sheet, x_table_id, x_columns, x_num_rows, xpc, xresult>>
whVars    == <<datasets, created>>
provVars  == <<cpc, cfun, cid, cres, ccalls>>
refVars   == <<icc_trusted, icf_trusted, refined, rpc>>
mainVars  == <<pc, dataset_uuid, layer, index, filepath, exc, outcome, log, ddir,
               tables, writes>>

vars == <<watchVars, excelVars, whVars, provVars, refVars, mainVars>>

notWatch  == <<excelVars, whVars, provVars, refVars, mainVars>>
notExcel  == <<watchVars, whVars, provVars, refVars, mainVars>>
notProv   == <<watchVars, excelVars, refVars, mainVars>>
notRef    == <<watchVars, excelVars, whVars, provVars, mainVars>>
notMain   == <<watchVars, excelVars, provVars, refVars>>

-----------------------------------------------------------------------------
(* Strings are sequences of one-character strings, so that endswith, lower  *)
(* and the regular expression of sanitize_column_names are computed.        *)

EndsWith(s, suffix) ==
    /\ Len(s) >= Len(suffix)
    /\ SubSeq(s, Len(s) - Len(suffix) + 1, Len(s)) = suffix

XLSX == <<".", "x", "l", "s", "x">>

DOWNLOAD_DIR == <<"/", "d">>

\* os.path.join(folder, file)
PathJoin(dirname, file) == dirname \o <<"/">> \o file

\* File names the browser (or anything else) may put into the folder.
F_icc      == <<"a", ".", "x", "l", "s", "x">>
F_icf      == <<"b", ".", "x", "l", "s", "x">>
F_partial  == <<"a", ".", "x", "l", "s", "x", ".", "p">>
F_noDot    == <<"x", "l", "s", "x">>
FileNames  == {F_icc, F_icf, F_partial, F_noDot}

-----------------------------------------------------------------------------
(* wait_for_file_download(driver, download_xpath, folder, timeout)          *)

\* The timeout argument, in seconds, and the length of one time.sleep.
Timeout == 3
SleepSeconds == 1

WNoResult == [kind |-> "none", path |-> <<>>]

WatchInit ==
    /\ folder \in SUBSET {F_icc, F_partial}
    /\ files_before = {}
    /\ start_time = 0
    /\ now = 0
    /\ appeared = {}
    /\ wpc = "snapshot"
    /\ wresult = WNoResult

\* files_before = set(os.listdir(folder)); start_time = time.time()
WSnapshot ==
    /\ wpc = "snapshot"
    /\ files_before' = folder
    /\ start_time' = now
    /\ wpc' = "click"
    /\ UNCHANGED <<folder, now, appeared, wresult, notWatch>>

\* driver.find_element(By.XPATH, download_xpath).click(): the element is found
\* and clicked, or find_element raises and the exception leaves the function.
WClick ==
    /\ wpc = "click"
    /\ \/ /\ wpc' = "loop"
          /\ UNCHANGED wresult
       \/ /\ wpc' = "done"
          /\ wresult' = [kind |-> "click_error", path |-> <<>>]
    /\ UNCHANGED <<folder, files_before, start_time, now, appeared, notWatch>>

\* while time.time() - start_time < timeout: ... raise TimeoutError
WLoopTest ==
    /\ wpc = "loop"
    /\ IF now - start_time < Timeout
         THEN /\ wpc' = "poll"
              /\ UNCHANGED wresult
         ELSE /\ wpc' = "done"
              /\ wresult' = [kind |-> "timeout", path |-> <<>>]
    /\ UNCHANGED <<folder, files_before, start_time, now, appeared, notWatch>>

\* The files of one poll that end the wait.
NewXlsx(files_after, before) ==
    {f \in files_after \ before : EndsWith(f, XLSX)}

\* files_after = set(os.listdir(folder)); new_files = files_after - files_before;
\* the first new file ending in ".xlsx" (in the set's iteration order) is returned.
WPoll ==
    /\ wpc = "poll"
    /\ IF NewXlsx(folder, files_before) # {}
         THEN \E f \in NewXlsx(folder, files_before) :
                 /\ wpc' = "done"
                 /\ wresult' = [kind |-> "returned", path |-> PathJoin(DOWNLOAD_DIR, f)]
         ELSE /\ wpc' = "sleep"
              /\ UNCHANGED wresult
    /\ UNCHANGED <<folder, files_before, start_time, now, appeared, notWatch>>

\* time.sleep(1)
WSleep ==
    /\ wpc = "sleep"
    /\ now' = now + SleepSeconds
    /\ wpc' = "loop"
    /\ UNCHANGED <<folder, files_before, start_time, appeared, wresult, notWatch>>

\* The environment: a file appears in the folder (the browser writes a download,
\* a partial-download marker, or anything else does).
FileAppears ==
    /\ wpc # "done"
    /\ \E f \in FileNames \ folder :
          /\ folder' = folder \cup {f}
          /\ appeared' = appeared \cup {<<f, now>>}
    /\ UNCHANGED <<files_before, start_time, now, wpc, wresult, notWatch>>

\* The environment: a file leaves the folder (a partial-download marker is
\* renamed away, a file is deleted).
FileVanishes ==
    /\ wpc # "done"
    /\ \E f \in folder :
          /\ folder' = folder \ {f}
          /\ appeared' = {p \in appeared : p[1] # f}
    /\ UNCHANGED <<files_before, start_time, now, wpc, wresult, notWatch>>

WatchNext ==
    \/ WSnapshot
    \/ WClick
    \/ WLoopTest
    \/ WPoll
    \/ WSleep
    \/ FileAppears
    \/ FileVanishes


-----------------------------------------------------------------------------
\* C2: wait_for_file_download ends in a timeout only if no new file ending in
\* .xlsx appeared before the timeout elapsed: a call that ends in a timeout
\* never leaves in the folder a file that was absent from the snapshot, ends in
\* .xlsx and appeared less than Timeout seconds after the start.
C2_TimeoutOnlyIfNoFileAppeared ==
    (wpc = "done" /\ wresult.kind = "timeout") =>
        ~ \E p \in appeared :
             /\ p[1] \in folder \ files_before
             /\ EndsWith(p[1], XLSX)
             /\ p[2] - start_time < Timeout

-----------------------------------------------------------------------------
(* sanitize_column_names and process_excel_file                             *)

LowerChars == {"a", "c", "e", "f", "i", "m", "r", "s"}
UpperChars == {"C", "I", "M"}
WordChars  == LowerChars \cup UpperChars \cup {"0", "1", "_"}

\* str.lower, one character
LowerChar(c) ==
    CASE c = "C" -> "c"
      [] c = "I" -> "i"
      [] c = "M" -> "m"
      [] OTHER   -> c

\* str.lower
Lower(s) == [k \in 1..Len(s) |-> LowerChar(s[k])]

RECURSIVE DropNonWord(_)
DropNonWord(s) ==
    IF s = <<>> \/ Head(s) \in WordChars THEN s ELSE DropNonWord(Tail(s))

\* re.sub(r"[^a-zA-Z0-9_]+", "_", col): every maximal run of characters outside
\* [a-zA-Z0-9_] becomes one underscore.
RECURSIVE ReSub(_)
ReSub(s) ==
    IF s = <<>> THEN <<>>
    ELSE IF Head(s) \in WordChars
           THEN <<Head(s)>> \o ReSub(Tail(s))
           ELSE <<"_">> \o ReSub(DropNonWord(Tail(s)))

\* sanitize_column_names, on the list of column names
sanitize_column_names(cols) == [k \in 1..Len(cols) |-> Lower(ReSub(cols[k]))]

\* sub in s
Contains(s, sub) ==
    \E k \in 0..(Len(s) - Len(sub)) : SubSeq(s, k + 1, k + Len(sub)) = sub

ICC == <<"i", "c", "c">>
LOAD_TIMESTAMP == <<"l", "t">>

\* skiprows = 1 if "icc" in table_id.lower() else 0
SkipRows(table_id) == IF Contains(Lower(table_id), ICC) THEN 1 ELSE 0

\* Row k of the sheet, as the cells <<k, 1>> .. <<k, width>>.
SheetRow(sh, k) == [j \in 1..sh.width |-> <<k, j>>]

\* pd.read_excel(filepath, sheet_name, nrows, skiprows, header=0): the first
\* skiprows rows are dropped, the next row is the header, and at most nrows of the
\* rows after it are the data. A sheet with no row left has no column either.
ReadExcel(sh, nrows, skiprows) ==
    IF sh.height <= skiprows
      THEN [ncols |-> 0, rows |-> <<>>]
      ELSE LET avail == sh.height - skiprows - 1
               n     == IF nrows < avail THEN nrows ELSE avail
           IN  [ncols |-> sh.width,
                rows  |-> [k \in 1..n |-> SheetRow(sh, skiprows + 1 + k)]]

\* df['load_timestamp'] = datetime.utcnow(): a new last column, or the column of
\* that name overwritten.
WithLoadTimestamp(cols) ==
    IF \E k \in 1..Len(cols) : cols[k] = LOAD_TIMESTAMP
      THEN cols
      ELSE Append(cols, LOAD_TIMESTAMP)

XError == [kind |-> "error", columns |-> <<>>, rows |-> <<>>]
XNone  == [kind |-> "none", columns |-> <<>>, rows |-> <<>>]

\* The whole of process_excel_file: what it returns, or the error it re-raises.
ExcelResult(found, sh, table_id, columns, num_rows) ==
    IF ~found
      THEN XError                                   \* read_excel: no such sheet
      ELSE LET df == ReadExcel(sh, num_rows, SkipRows(table_id))
           IN  IF df.ncols # Len(columns)
                 THEN XError                        \* df.columns = columns: length mismatch
                 ELSE [kind    |-> "returned",
                       columns |-> WithLoadTimestamp(sanitize_column_names(columns)),
                       rows    |-> df.rows]

\* Bounds of the sheets and arguments tried.
MaxWidth == 2
MaxHeight == 4
MaxNumRows == 3

C_mes   == <<"m", "e", "s">>
C_icc   == <<"i", "c", "c">>
C_raw   == <<"M", " ", "-", "s">>
ColNames == {C_mes, C_icc, C_raw}

T_icc_raw == <<"i", "c", "c", "_", "r">>
T_icf_raw == <<"i", "c", "f", "_", "r">>
T_ICC_raw == <<"I", "C", "c", "_", "r">>
TableIdArgs == {T_icc_raw, T_icf_raw, T_ICC_raw}

SeqsUpTo(S, n) == UNION {[1..k -> S] : k \in 0..n}

ExcelInit ==
    /\ sheet_found \in BOOLEAN
    /\ sheet \in [width : 0..MaxWidth, height : 0..MaxHeight]
    /\ x_table_id \in TableIdArgs
    /\ x_columns \in SeqsUpTo(ColNames, MaxWidth)
    /\ x_num_rows \in 0..MaxNumRows
    /\ xpc = "call"
    /\ xresult = XNone

process_excel_file ==
    /\ xpc = "call"
    /\ xresult' = ExcelResult(sheet_found, sheet, x_table_id, x_columns, x_num_rows)
    /\ xpc' = "done"
    /\ UNCHANGED <<sheet_found, sheet, x_table_id, x_columns, x_num_rows, notExcel>>

ExcelNext ==
    \/ process_excel_file

-----------------------------------------------------------------------------
\* C8: process_excel_file, given K >= 1 column names and the row count
\* num_rows, either fails or returns a dataset of exactly num_rows data rows:
\* whenever the call returns a dataset, the dataset has num_rows rows.
C8_ReturnsExactlyNumRows ==
    (xpc = "done" /\ xresult.kind = "returned" /\ Len(x_columns) >= 1)
        => Len(xresult.rows) = x_num_rows

-----------------------------------------------------------------------------
(* create_bigquery_dataset and create_trusted_dataset                       *)

PROJECT_ID == "ps-eng-dados-ds3x-448302"

Layers == {"raw", "trusted", "refined"}

\* The values uuid.uuid4().hex[:6] is drawn from (16^6 of them in the program).
UUIDs == {"u1", "u2"}

\* f"economic_indices_{layer}_{dataset_uuid}"
DatasetName(lay, u) == [layer |-> lay, uuid |-> u]

\* f"{PROJECT_ID}.{dataset_name}"
Qualify(name) == [project |-> PROJECT_ID, name |-> name]

DatasetNames == [layer : Layers, uuid : UUIDs]
DatasetIds == {Qualify(n) : n \in DatasetNames}

\* client.get_dataset(dataset_id): TRUE when it returns, FALSE when it raises NotFound
get_dataset(id) == id \in datasets

\* The same call without exists_ok: the API's Conflict reaches the caller.
CreateOutcomeNoExistsOk(id) ==
    IF id \in datasets THEN "conflict" ELSE "created"

\* client.create_dataset(dataset, exists_ok=True): the dataset is created, or it
\* exists already and the API's Conflict is swallowed.
CreateOutcome(id) ==
    IF id \in datasets THEN "exists_ok" ELSE "created"

\* The warehouse after create_dataset(id).
CreateDataset(id) ==
    IF CreateOutcome(id) = "created"
      THEN /\ datasets' = datasets \cup {id}
           /\ created' = [created EXCEPT ![id] = @ + 1]
      ELSE UNCHANGED <<datasets, created>>

WarehouseInit ==
    /\ datasets = {}
    /\ created = [id \in DatasetIds |-> 0]

\* Callers of the two functions, and how many calls each makes.
Callers == {"p", "q"}
MaxCalls == 2

\* The dataset names the callers ask for.
ProvNames == {DatasetName("raw", "u1"), DatasetName("trusted", "u1")}

ProvInit ==
    /\ WarehouseInit
    /\ cpc = [c \in Callers |-> "idle"]
    /\ cfun = [c \in Callers |-> "none"]
    /\ cid = [c \in Callers |-> Qualify(DatasetName("raw", "u1"))]
    /\ cres = [c \in Callers |-> "none"]
    /\ ccalls = [c \in Callers |-> 0]

\* The argument main() gives each function for the dataset called n:
\* create_bigquery_dataset the qualified id, create_trusted_dataset the name.
ArgumentFor(f, n) == IF f = "create_trusted_dataset" THEN n ELSE Qualify(n)

\* The dataset id a call works on: create_trusted_dataset qualifies its
\* argument (dataset_id = f"{PROJECT_ID}.{dataset_name}"), create_bigquery_dataset
\* takes it as it is.
TargetId(f, arg) == IF f = "create_trusted_dataset" THEN Qualify(arg) ELSE arg

\* A call of one of the two functions begins.
PCall(c) ==
    /\ cpc[c] = "idle"
    /\ ccalls[c] < MaxCalls
    /\ \E f \in {"create_bigquery_dataset", "create_trusted_dataset"}, n \in ProvNames :
          /\ cfun' = [cfun EXCEPT ![c] = f]
          /\ cid' = [cid EXCEPT ![c] = TargetId(f, ArgumentFor(f, n))]
    /\ cpc' = [cpc EXCEPT ![c] = "get"]
    /\ cres' = [cres EXCEPT ![c] = "pending"]
    /\ ccalls' = [ccalls EXCEPT ![c] = @ + 1]
    /\ UNCHANGED <<whVars, notProv>>

\* try: client.get_dataset(dataset_id) ... except exceptions.NotFound:
PGet(c) ==
    /\ cpc[c] = "get"
    /\ IF get_dataset(cid[c])
         THEN /\ cpc' = [cpc EXCEPT ![c] = "idle"]
              /\ cres' = [cres EXCEPT ![c] = "exists"]
         ELSE /\ cpc' = [cpc EXCEPT ![c] = "create"]
              /\ UNCHANGED cres
    /\ UNCHANGED <<cfun, cid, ccalls, whVars, notProv>>

\* get_dataset raises something other than NotFound (no permission, no network):
\* the error leaves the function.
PGetFails(c) ==
    /\ cpc[c] = "get"
    /\ cpc' = [cpc EXCEPT ![c] = "idle"]
    /\ cres' = [cres EXCEPT ![c] = "other_error"]
    /\ UNCHANGED <<cfun, cid, ccalls, whVars, notProv>>

\* client.create_dataset(dataset, exists_ok=True)
PCreate(c) ==
    /\ cpc[c] = "create"
    /\ cres' = [cres EXCEPT ![c] = CreateOutcome(cid[c])]
    /\ CreateDataset(cid[c])
    /\ cpc' = [cpc EXCEPT ![c] = "idle"]
    /\ UNCHANGED <<cfun, cid, ccalls, notProv>>

\* create_dataset fails for a reason other than the dataset existing.
PCreateFails(c) ==
    /\ cpc[c] = "create"
    /\ cpc' = [cpc EXCEPT ![c] = "idle"]
    /\ cres' = [cres EXCEPT ![c] = "other_error"]
    /\ UNCHANGED <<cfun, cid, ccalls, whVars, notProv>>

ProvNext ==
    \/ \E c \in Callers : PCall(c)
    \/ \E c \in Callers : PGet(c)
    \/ \E c \in Callers : PGetFails(c)
    \/ \E c \in Callers : PCreate(c)
    \/ \E c \in Callers : PCreateFails(c)

-----------------------------------------------------------------------------
\* C3: provisioning is an idempotent create-if-absent. Whatever calls of
\* create_bigquery_dataset and create_trusted_dataset are made, in whatever
\* interleaving, every dataset id is created at most once (exactly once when it
\* exists), and no call ends in the "already exists" conflict.
C3_IdempotentProvisioning ==
    /\ \A id \in DatasetIds : created[id] = IF id \in datasets THEN 1 ELSE 0
    /\ \A c \in Callers : cres[c] # "conflict"

\* Both ways of meeting an existing dataset happened: a lookup that found it,
\* and a create_dataset that found it created since the caller's own lookup.
C3_Witness ==
    /\ \E c \in Callers : cres[c] = "exists_ok"
    /\ \E c \in Callers : cres[c] = "exists" /\ ccalls[c] = MaxCalls

-----------------------------------------------------------------------------
(* transform_refined_data: the query that builds icf_icc_refined            *)
(*                                                                         *)
(* A DATE is [y, m, d]; a FLOAT64 is modelled by an integer, and a          *)
(* percentage change by the exact fraction [num, den] in lowest terms.      *)
(* A nullable value carries a null flag. load_timestamp is left out.        *)

D_sep_01 == [y |-> 2023, m |-> 9,  d |-> 1]
D_oct_01 == [y |-> 2023, m |-> 10, d |-> 1]
D_oct_15 == [y |-> 2023, m |-> 10, d |-> 15]
D_jan_01 == [y |-> 2024, m |-> 1,  d |-> 1]
Dates == {D_sep_01, D_oct_01, D_oct_15, D_jan_01}

\* The index values tried, and the most rows a trusted table holds.
Vals == {0, 50, 75}
MaxTableRows == 3

\* ORDER BY mes: the order of dates
DateLess(a, b) ==
    \/ a.y < b.y
    \/ a.y = b.y /\ a.m < b.m
    \/ a.y = b.y /\ a.m = b.m /\ a.d < b.d

DIGITS == <<"0", "1", "2", "3", "4", "5", "6", "7", "8", "9">>

RECURSIVE Decimal(_)
Decimal(n) ==
    IF n < 10 THEN <<DIGITS[n + 1]>>
    ELSE Decimal(n \div 10) \o <<DIGITS[(n % 10) + 1]>>

\* FORMAT_DATE('%Y-%m', mes): the year in decimal, a dash, the month on two digits
FormatYearMonth(date) ==
    Decimal(date.y) \o <<"-">>
        \o (IF date.m < 10 THEN <<"0">> ELSE <<>>) \o Decimal(date.m)

\* The code point of a character of a formatted period.
CharCode(c) ==
    IF c = "-" THEN 45
    ELSE 48 + (CHOOSE k \in 0..9 : DIGITS[k + 1] = c)

\* ORDER BY ano_mes ASC: the order of strings, by code point
RECURSIVE StrLess(_, _)
StrLess(a, b) ==
    IF b = <<>> THEN FALSE
    ELSE IF a = <<>> THEN TRUE
    ELSE IF Head(a) # Head(b) THEN CharCode(Head(a)) < CharCode(Head(b))
    ELSE StrLess(Tail(a), Tail(b))

Null == [null |-> TRUE, v |-> 0]
Some(x) == [null |-> FALSE, v |-> x]

NullChange == [null |-> TRUE, num |-> 0, den |-> 1]

RECURSIVE Gcd(_, _)
Gcd(a, b) == IF b = 0 THEN a ELSE Gcd(b, a % b)

Abs(x) == IF x < 0 THEN 0 - x ELSE x

\* The fraction n / d, d # 0, in lowest terms with a positive denominator.
Fraction(n, d) ==
    LET g == Gcd(Abs(n), Abs(d))
        sgn == IF d < 0 THEN 0 - 1 ELSE 1
    IN  [null |-> FALSE, num |-> sgn * (n \div g), den |-> sgn * (d \div g)]

\* The rows of a table in the order of ORDER BY mes.
RECURSIVE SortByMes(_)
SortByMes(T) ==
    IF T = {} THEN <<>>
    ELSE LET first == CHOOSE r \in T : \A o \in T : ~DateLess(o.mes, r.mes)
         IN  <<first>> \o SortByMes(T \ {first})

\* The CTEs icc_data and icf_data:
\*   FORMAT_DATE('%Y-%m', mes) AS ano_mes, x AS indice, LAG(x) OVER(ORDER BY mes) AS prev
WithLag(T) ==
    LET s == SortByMes(T)
    IN  [k \in 1..Len(s) |->
            [ano_mes |-> FormatYearMonth(s[k].mes),
             indice  |-> s[k].val,
             prev    |-> IF k = 1 THEN Null ELSE Some(s[k - 1].val)]]

\* The same CASE with the division by zero answered by 0.
VariacaoZeroAsZero(indice, prev) ==
    IF prev.null THEN NullChange
    ELSE IF prev.v = 0 THEN Fraction(0, 1)
    ELSE Fraction((indice - prev.v) * 100, prev.v)

\* CASE WHEN prev IS NULL OR prev = 0 THEN NULL
\*      ELSE ((indice - prev) / prev) * 100 END
Variacao(indice, prev) ==
    IF prev.null \/ prev.v = 0 THEN NullChange
    ELSE Fraction((indice - prev.v) * 100, prev.v)

RefinedRow(i, f) ==
    [ano_mes      |-> i.ano_mes,
     icc_indice   |-> i.indice,
     icc_variacao |-> Variacao(i.indice, i.prev),
     icf_indice   |-> f.indice,
     icf_variacao |-> Variacao(f.indice, f.prev)]

\* The joined rows of icc_data row i, over the icf_data rows from the k-th on.
RECURSIVE JoinOne(_, _, _)
JoinOne(i, fs, k) ==
    IF k > Len(fs) THEN <<>>
    ELSE (IF fs[k].ano_mes = i.ano_mes THEN <<RefinedRow(i, fs[k])>> ELSE <<>>)
            \o JoinOne(i, fs, k + 1)

RECURSIVE JoinFrom(_, _, _)
JoinFrom(is, fs, k) ==
    IF k > Len(is) THEN <<>>
    ELSE JoinOne(is[k], fs, 1) \o JoinFrom(is, fs, k + 1)

\* FROM icc_data AS i LEFT JOIN icf_data AS f USING (ano_mes), the icf columns
\* of an unmatched row read as 0 and NULL.
RECURSIVE LeftJoinFrom(_, _, _)
LeftJoinFrom(is, fs, k) ==
    IF k > Len(is) THEN <<>>
    ELSE (IF JoinOne(is[k], fs, 1) = <<>>
            THEN <<RefinedRow(is[k], [ano_mes |-> is[k].ano_mes, indice |-> 0, prev |-> Null])>>
            ELSE JoinOne(is[k], fs, 1))
            \o LeftJoinFrom(is, fs, k + 1)

joined_data_left(is, fs) == LeftJoinFrom(is, fs, 1)

\* The CTE joined_data: FROM icc_data AS i JOIN icf_data AS f USING (ano_mes)
joined_data(is, fs) == JoinFrom(is, fs, 1)

\* The distinct values of ano_mes in rows, ascending.
RECURSIVE SortKeys(_)
SortKeys(K) ==
    IF K = {} THEN <<>>
    ELSE LET first == CHOOSE a \in K : \A b \in K : ~StrLess(b, a)
         IN  <<first>> \o SortKeys(K \ {first})

RECURSIVE Select(_, _, _)
Select(rows, key, k) ==
    IF k > Len(rows) THEN <<>>
    ELSE (IF rows[k].ano_mes = key THEN <<rows[k]>> ELSE <<>>) \o Select(rows, key, k + 1)

IndexOrders(n) == {q \in [1..n -> 1..n] : \A a, b \in 1..n : q[a] = q[b] => a = b}

\* Every order of the rows of one period: SQL leaves the order of ties open.
Arrangements(g) == {[k \in 1..Len(g) |-> g[q[k]]] : q \in IndexOrders(Len(g))}

RECURSIVE OrderedFrom(_, _, _)
OrderedFrom(rows, keys, k) ==
    IF k > Len(keys) THEN {<<>>}
    ELSE {a \o b : a \in Arrangements(Select(rows, keys[k], 1)),
                   b \in OrderedFrom(rows, keys, k + 1)}

\* ORDER BY ano_mes ASC: the results the query may give for these rows.
OrderByAnoMes(rows) ==
    OrderedFrom(rows, SortKeys({rows[k].ano_mes : k \in 1..Len(rows)}), 1)

\* The tables a trusted table may be: rows of distinct dates, at most MaxTableRows.
TrustedTables ==
    UNION {{{[mes |-> d, val |-> f[d]] : d \in S} : f \in [S -> Vals]} :
              S \in {T \in SUBSET Dates : Cardinality(T) <= MaxTableRows}}

RefinedInit ==
    /\ icc_trusted \in TrustedTables
    /\ icf_trusted \in TrustedTables
    /\ refined = <<>>
    /\ rpc = "call"

\* job = client.query(query); job.result(): the table is replaced by the result.
transform_refined_data ==
    /\ rpc = "call"
    /\ \E result \in OrderByAnoMes(joined_data(WithLag(icc_trusted), WithLag(icf_trusted))) :
          refined' = result
    /\ rpc' = "done"
    /\ UNCHANGED <<icc_trusted, icf_trusted, notRef>>

\* The query job fails: job.result() raises and nothing is materialized.
transform_refined_data_fails ==
    /\ rpc = "call"
    /\ rpc' = "failed"
    /\ UNCHANGED <<icc_trusted, icf_trusted, refined, notRef>>

RefinedNext ==
    \/ transform_refined_data
    \/ transform_refined_data_fails

-----------------------------------------------------------------------------
\* The row of table T just before row r in date order, as a set (empty when r is
\* the first).
Preceding(T, r) ==
    {p \in T : /\ DateLess(p.mes, r.mes)
               /\ \A o \in T : DateLess(o.mes, r.mes) => ~DateLess(p.mes, o.mes)}

\* What the percentage change of row r of table T has to be.
ExpectedChange(T, r) ==
    IF \E p \in Preceding(T, r) : p.val # 0
      THEN LET p == CHOOSE q \in Preceding(T, r) : TRUE
           IN  Fraction((r.val - p.val) * 100, p.val)
      ELSE NullChange

SamePeriod(a, b) == a.mes.y = b.mes.y /\ a.mes.m = b.mes.m

\* C6: every refined row carries, for each series, the value of a row of that
\* series' trusted table and the change (value - previous) / previous * 100
\* from the row just before it in its own table by date, null when there is no
\* such row or its value is 0; the two source rows are of the row's period.
C6_ChangeFromOwnPrecedingRow ==
    rpc = "done" =>
        \A k \in 1..Len(refined) :
            \E i \in icc_trusted, f \in icf_trusted :
                /\ SamePeriod(i, f)
                /\ refined[k].ano_mes = FormatYearMonth(i.mes)
                /\ refined[k].icc_indice = i.val
                /\ refined[k].icf_indice = f.val
                /\ refined[k].icc_variacao = ExpectedChange(icc_trusted, i)
                /\ refined[k].icf_variacao = ExpectedChange(icf_trusted, f)

\* A result with the change 50 (from 50 to 75), a change that is null because
\* the previous value is 0, and an icc row whose preceding row is of a period
\* that icf_trusted does not have.
C6_Witness ==
    /\ rpc = "done"
    /\ \E k \in 1..Len(refined) :
          refined[k].icc_variacao = [null |-> FALSE, num |-> 50, den |-> 1]
    /\ \E k \in 1..Len(refined), f \in icf_trusted :
          /\ refined[k].icf_variacao.null
          /\ refined[k].ano_mes = FormatYearMonth(f.mes)
          /\ \E p \in Preceding(icf_trusted, f) : p.val = 0
    /\ \E i \in icc_trusted, p \in icc_trusted :
          /\ p \in Preceding(icc_trusted, i)
          /\ \E f \in icf_trusted : SamePeriod(i, f)
          /\ ~ \E f \in icf_trusted : SamePeriod(p, f)

\* The period <<year, month>> a formatted ano_mes of a four-digit year reads as.
DigitVal(c) == CHOOSE k \in 0..9 : DIGITS[k + 1] = c
ParseYearMonth(s) ==
    <<DigitVal(s[1]) * 1000 + DigitVal(s[2]) * 100 + DigitVal(s[3]) * 10 + DigitVal(s[4]),
      DigitVal(s[6]) * 10 + DigitVal(s[7])>>

PeriodsOf(T) == {<<r.mes.y, r.mes.m>> : r \in T}

PeriodLessEq(a, b) == a[1] < b[1] \/ (a[1] = b[1] /\ a[2] <= b[2])

\* C7: the refined table is the inner join on the year-month key, ascending by
\* period: its periods are exactly those present in both trusted tables, it
\* holds one row per pair of rows of the same period (so one row per period
\* when each period has one row in each table), and no row precedes a row of
\* an earlier period.
C7_InnerJoinAscending ==
    rpc = "done" =>
        /\ {ParseYearMonth(refined[k].ano_mes) : k \in 1..Len(refined)}
              = PeriodsOf(icc_trusted) \cap PeriodsOf(icf_trusted)
        /\ Len(refined)
              = Cardinality({pr \in icc_trusted \X icf_trusted : SamePeriod(pr[1], pr[2])})
        /\ \A k, l \in 1..Len(refined) :
              k < l => PeriodLessEq(ParseYearMonth(refined[k].ano_mes),
                                    ParseYearMonth(refined[l].ano_mes))

\* Two tables of the same three single-row periods gave exactly three rows.
C7_Witness ==
    /\ rpc = "done"
    /\ Cardinality(icc_trusted) = 3
    /\ Cardinality(PeriodsOf(icc_trusted)) = 3
    /\ Cardinality(icf_trusted) = 3
    /\ PeriodsOf(icf_trusted) = PeriodsOf(icc_trusted)
    /\ Len(refined) = 3

-----------------------------------------------------------------------------
(* main()                                                                   *)

\* The executions of main() that share the warehouse.
Runs == {"A", "B"}

\* indices: the two descriptors, in the order of the list
INDICES ==
    <<[name |-> "icc", raw_table |-> "icc_raw", trusted_table |-> "icc_trusted"],
      [name |-> "icf", raw_table |-> "icf_raw", trusted_table |-> "icf_trusted"]>>

REFINED_TABLE == "icf_icc_refined"

TableId(lay, u, name) == [dataset |-> Qualify(DatasetName(lay, u)), table |-> name]

TableIds ==
    {TableId("raw", u, INDICES[k].raw_table) : u \in UUIDs, k \in 1..Len(INDICES)}
    \cup {TableId("trusted", u, INDICES[k].trusted_table) : u \in UUIDs, k \in 1..Len(INDICES)}
    \cup {TableId("refined", u, REFINED_TABLE) : u \in UUIDs}

NoTable == [exists |-> FALSE, loads |-> <<>>]

\* f"{raw_dataset_id}.icc_raw" and the like, for execution r
RawTable(r, k)     == TableId("raw", dataset_uuid[r], INDICES[k].raw_table)
TrustedTable(r, k) == TableId("trusted", dataset_uuid[r], INDICES[k].trusted_table)
RefinedTable(r)    == TableId("refined", dataset_uuid[r], REFINED_TABLE)

\* The dataset main() provisions for a layer.
DatasetOf(r, lay) == Qualify(DatasetName(lay, dataset_uuid[r]))

\* The files an execution's downloads may bring, and the sets that may appear
\* during one wait.
MainFiles == {F_icc, F_icf, F_partial}
Arrivals == {{}} \cup {{f} : f \in MainFiles} \cup {{F_partial, F_icc}}

Event(step, what, ok, file) == [step |-> step, what |-> what, ok |-> ok, file |-> file]

Logged(r, e) == log' = [log EXCEPT ![r] = Append(@, e)]

\* os.path.basename, of a path made by PathJoin(DOWNLOAD_DIR, file)
Basename(path) == SubSeq(path, Len(DOWNLOAD_DIR) + 2, Len(path))

MainInit ==
    /\ WarehouseInit
    /\ pc = [r \in Runs |-> "start"]
    /\ dataset_uuid = [r \in Runs |-> "none"]
    /\ layer = [r \in Runs |-> "none"]
    /\ index = [r \in Runs |-> 1]
    /\ filepath = [r \in Runs |-> <<>>]
    /\ exc = [r \in Runs |-> FALSE]
    /\ outcome = [r \in Runs |-> "running"]
    /\ log = [r \in Runs |-> <<>>]
    \* A starts with an empty directory, B with an .xlsx file left by an earlier run
    /\ ddir = [r \in Runs |-> IF r = "A" THEN {} ELSE {F_icc}]
    /\ tables = [t \in TableIds |-> NoTable]
    /\ writes = {}

\* An exception leaves main() directly, with no finally clause on its way.
RaiseNoFinally(r) ==
    /\ pc' = [pc EXCEPT ![r] = "ended"]
    /\ exc' = [exc EXCEPT ![r] = TRUE]
    /\ outcome' = [outcome EXCEPT ![r] = "raised"]

\* An exception raised inside try: ... finally: driver.quit(): the finally
\* clause runs next, and the exception goes on after it.
RaiseInTry(r) ==
    /\ pc' = [pc EXCEPT ![r] = "finally"]
    /\ exc' = [exc EXCEPT ![r] = TRUE]
    /\ UNCHANGED outcome

\* An exception raised before the try block: it leaves main().
RaiseOutOfMain(r) ==
    /\ pc' = [pc EXCEPT ![r] = "ended"]
    /\ outcome' = [outcome EXCEPT ![r] = "raised"]
    /\ UNCHANGED exc

\* os.makedirs; if not GOOGLE_CREDENTIALS: raise FileNotFoundError
M_NoCredentials(r) ==
    /\ pc[r] = "start"
    /\ RaiseOutOfMain(r)
    /\ Logged(r, Event("credentials", "", FALSE, <<>>))
    /\ UNCHANGED <<dataset_uuid, layer, index, filepath, ddir, tables, writes,
                   whVars, notMain>>

\* dataset_uuid = uuid.uuid4().hex[:6]
M_Start(r) ==
    /\ pc[r] = "start"
    /\ \E u \in UUIDs : dataset_uuid' = [dataset_uuid EXCEPT ![r] = u]
    /\ layer' = [layer EXCEPT ![r] = "raw"]
    /\ pc' = [pc EXCEPT ![r] = "get_dataset"]
    /\ UNCHANGED <<index, filepath, exc, outcome, log, ddir, tables, writes,
                   whVars, notMain>>

\* What follows the provisioning of a layer: the next create_*_dataset call, or
\* the list of indices and setup_chrome_driver.
AfterProvision(r) ==
    CASE layer[r] = "raw"     -> /\ layer' = [layer EXCEPT ![r] = "trusted"]
                                 /\ pc' = [pc EXCEPT ![r] = "get_dataset"]
      [] layer[r] = "trusted" -> /\ layer' = [layer EXCEPT ![r] = "refined"]
                                 /\ pc' = [pc EXCEPT ![r] = "get_dataset"]
      [] OTHER                -> /\ layer' = [layer EXCEPT ![r] = "none"]
                                 /\ pc' = [pc EXCEPT ![r] = "setup"]

\* create_*_dataset: try: client.get_dataset(dataset_id) except NotFound:
M_GetDataset(r) ==
    /\ pc[r] = "get_dataset"
    /\ IF get_dataset(DatasetOf(r, layer[r]))
         THEN /\ AfterProvision(r)
              /\ Logged(r, Event("provision", layer[r], TRUE, <<>>))
         ELSE /\ pc' = [pc EXCEPT ![r] = "create_dataset"]
              /\ UNCHANGED <<layer, log>>
    /\ UNCHANGED <<dataset_uuid, index, filepath, exc, outcome, ddir, tables, writes,
                   whVars, notMain>>

\* get_dataset raises something other than NotFound.
M_GetDatasetFails(r) ==
    /\ pc[r] = "get_dataset"
    /\ RaiseOutOfMain(r)
    /\ Logged(r, Event("provision", layer[r], FALSE, <<>>))
    /\ UNCHANGED <<dataset_uuid, layer, index, filepath, ddir, tables, writes,
                   whVars, notMain>>

\* create_*_dataset: client.create_dataset(dataset, exists_ok=True)
M_CreateDataset(r) ==
    /\ pc[r] = "create_dataset"
    /\ IF CreateOutcome(DatasetOf(r, layer[r])) = "conflict"
         THEN /\ RaiseOutOfMain(r)
              /\ Logged(r, Event("provision", layer[r], FALSE, <<>>))
              /\ UNCHANGED <<layer, whVars>>
         ELSE /\ CreateDataset(DatasetOf(r, layer[r]))
              /\ AfterProvision(r)
              /\ Logged(r, Event("provision", layer[r], TRUE, <<>>))
              /\ UNCHANGED <<exc, outcome>>
    /\ UNCHANGED <<dataset_uuid, index, filepath, ddir, tables, writes, notMain>>

\* create_dataset fails for a reason other than the dataset existing.
M_CreateDatasetFails(r) ==
    /\ pc[r] = "create_dataset"
    /\ RaiseOutOfMain(r)
    /\ Logged(r, Event("provision", layer[r], FALSE, <<>>))
    /\ UNCHANGED <<dataset_uuid, layer, index, filepath, ddir, tables, writes,
                   whVars, notMain>>

\* driver = setup_chrome_driver(DOWNLOAD_DIR), then the first iteration begins
M_Setup(r) ==
    /\ pc[r] = "setup"
    /\ pc' = [pc EXCEPT ![r] = "navigate"]
    /\ index' = [index EXCEPT ![r] = 1]
    /\ Logged(r, Event("setup", "", TRUE, <<>>))
    /\ UNCHANGED <<dataset_uuid, layer, filepath, exc, outcome, ddir, tables, writes,
                   whVars, notMain>>

\* webdriver.Chrome(...) raises: no driver was acquired, the error leaves main().
M_SetupFails(r) ==
    /\ pc[r] = "setup"
    /\ RaiseOutOfMain(r)
    /\ Logged(r, Event("setup", "", FALSE, <<>>))
    /\ UNCHANGED <<dataset_uuid, layer, index, filepath, ddir, tables, writes,
                   whVars, notMain>>

\* A step inside the try block raises: nothing but the log and the control
\* state changes.
FailsInTry(r, step) ==
    /\ RaiseInTry(r)
    /\ Logged(r, Event(step, INDICES[index[r]].name, FALSE, <<>>))
    /\ UNCHANGED <<dataset_uuid, layer, index, filepath, ddir, tables, writes,
                   whVars, notMain>>

\* driver.get(index["url"]); time.sleep(2)
M_Navigate(r) ==
    /\ pc[r] = "navigate"
    /\ pc' = [pc EXCEPT ![r] = "wait"]
    /\ Logged(r, Event("navigate", INDICES[index[r]].name, TRUE, <<>>))
    /\ UNCHANGED <<dataset_uuid, layer, index, filepath, exc, outcome, ddir, tables,
                   writes, whVars, notMain>>

M_NavigateFails(r) ==
    /\ pc[r] = "navigate"
    /\ FailsInTry(r, "navigate")

\* filepath = wait_for_file_download(...): files appear in the directory after
\* the snapshot, and a new one ending in .xlsx is returned.
M_Wait(r) ==
    /\ pc[r] = "wait"
    /\ \E arrived \in Arrivals :
          /\ arrived \cap ddir[r] = {}
          /\ \E f \in NewXlsx(ddir[r] \cup arrived, ddir[r]) :
                /\ filepath' = [filepath EXCEPT ![r] = PathJoin(DOWNLOAD_DIR, f)]
                /\ Logged(r, Event("wait", INDICES[index[r]].name, TRUE, f))
          /\ ddir' = [ddir EXCEPT ![r] = @ \cup arrived]
    /\ pc' = [pc EXCEPT ![r] = "excel"]
    /\ UNCHANGED <<dataset_uuid, layer, index, exc, outcome, tables, writes,
                   whVars, notMain>>

\* wait_for_file_download raises: the click failed, or the loop timed out (no
\* poll saw a new .xlsx file, whatever has appeared by now).
M_WaitFails(r) ==
    /\ pc[r] = "wait"
    /\ \E arrived \in Arrivals :
          /\ arrived \cap ddir[r] = {}
          /\ ddir' = [ddir EXCEPT ![r] = @ \cup arrived]
    /\ RaiseInTry(r)
    /\ Logged(r, Event("wait", INDICES[index[r]].name, FALSE, <<>>))
    /\ UNCHANGED <<dataset_uuid, layer, index, filepath, tables, writes,
                   whVars, notMain>>

\* df = process_excel_file(filepath, ...); schema = [...]
M_Excel(r) ==
    /\ pc[r] = "excel"
    /\ pc' = [pc EXCEPT ![r] = "upload"]
    /\ Logged(r, Event("excel", INDICES[index[r]].name, TRUE, <<>>))
    /\ UNCHANGED <<dataset_uuid, layer, index, filepath, exc, outcome, ddir, tables,
                   writes, whVars, notMain>>

\* process_excel_file: except Exception: logging.error(...); raise
M_ExcelFails(r) ==
    /\ pc[r] = "excel"
    /\ FailsInTry(r, "excel")

\* upload_to_bigquery(df, index["raw_table"], schema): the load job appends the
\* rows (write_disposition="WRITE_APPEND"), creating the table when absent.
M_Upload(r) ==
    /\ pc[r] = "upload"
    /\ tables' = [tables EXCEPT ![RawTable(r, index[r])] =
                      [exists |-> TRUE, loads |-> Append(@.loads, r)]]
    /\ writes' = writes \cup {<<r, RawTable(r, index[r])>>}
    /\ pc' = [pc EXCEPT ![r] = "transform"]
    /\ Logged(r, Event("upload", INDICES[index[r]].name, TRUE, <<>>))
    /\ UNCHANGED <<dataset_uuid, layer, index, filepath, exc, outcome, ddir,
                   whVars, notMain>>

\* The same handler without its raise: the error is logged and swallowed.
UploadExceptSwallowed(r) ==
    /\ pc' = [pc EXCEPT ![r] = "transform"]
    /\ UNCHANGED <<exc, outcome>>

\* upload_to_bigquery: except Exception as e: logging.error(...); raise
UploadExcept(r) == RaiseInTry(r)

M_UploadFails(r) ==
    /\ pc[r] = "upload"
    /\ UploadExcept(r)
    /\ Logged(r, Event("upload", INDICES[index[r]].name, FALSE, <<>>))
    /\ UNCHANGED <<dataset_uuid, layer, index, filepath, ddir, tables, writes,
                   whVars, notMain>>

\* index["transform_function"](index["raw_table"], trusted_dataset):
\* CREATE OR REPLACE TABLE <trusted> AS SELECT ... FROM <raw>
M_Transform(r) ==
    /\ pc[r] = "transform"
    /\ tables[RawTable(r, index[r])].exists
    /\ tables' = [tables EXCEPT ![TrustedTable(r, index[r])] =
                      [exists |-> TRUE, loads |-> tables[RawTable(r, index[r])].loads]]
    /\ writes' = writes \cup {<<r, TrustedTable(r, index[r])>>}
    /\ pc' = [pc EXCEPT ![r] = "remove"]
    /\ Logged(r, Event("transform", INDICES[index[r]].name, TRUE, <<>>))
    /\ UNCHANGED <<dataset_uuid, layer, index, filepath, exc, outcome, ddir,
                   whVars, notMain>>

\* job.result() raises (a cast fails, the raw table is missing, the job fails).
M_TransformFails(r) ==
    /\ pc[r] = "transform"
    /\ FailsInTry(r, "transform")

\* The for loop with the refined transform inside it, after each index.
LoopNextRefinedInside(k) == [pc |-> "refined", index |-> k]

\* for index in indices: the next iteration, or the statement after the loop.
LoopNext(k) ==
    IF k < Len(INDICES)
      THEN [pc |-> "navigate", index |-> k + 1]
      ELSE [pc |-> "refined", index |-> k]

\* A removal that leaves the file where it is.
RemoveNothing(files, f) == files

\* The directory after os.remove of file f.
RemoveFile(files, f) == files \ {f}

\* os.remove(filepath), the last statement of the loop body
M_Remove(r) ==
    /\ pc[r] = "remove"
    /\ Basename(filepath[r]) \in ddir[r]
    /\ ddir' = [ddir EXCEPT ![r] = RemoveFile(@, Basename(filepath[r]))]
    /\ pc' = [pc EXCEPT ![r] = LoopNext(index[r]).pc]
    /\ index' = [index EXCEPT ![r] = LoopNext(index[r]).index]
    /\ Logged(r, Event("remove", INDICES[index[r]].name, TRUE, Basename(filepath[r])))
    /\ UNCHANGED <<dataset_uuid, layer, filepath, exc, outcome, tables, writes,
                   whVars, notMain>>

\* os.remove raises (no permission, the file is in use).
M_RemoveFails(r) ==
    /\ pc[r] = "remove"
    /\ FailsInTry(r, "remove")

\* transform_refined_data(trusted_dataset, refined_dataset):
\* CREATE OR REPLACE TABLE <refined> AS ... icc_trusted JOIN icf_trusted
M_Refined(r) ==
    /\ pc[r] = "refined"
    /\ \A k \in 1..Len(INDICES) : tables[TrustedTable(r, k)].exists
    /\ tables' = [tables EXCEPT ![RefinedTable(r)] =
                      [exists |-> TRUE,
                       loads  |-> tables[TrustedTable(r, 1)].loads
                                    \o tables[TrustedTable(r, 2)].loads]]
    /\ writes' = writes \cup {<<r, RefinedTable(r)>>}
    /\ pc' = [pc EXCEPT ![r] = "finally"]
    /\ Logged(r, Event("refined", "", TRUE, <<>>))
    /\ UNCHANGED <<dataset_uuid, layer, index, filepath, exc, outcome, ddir,
                   whVars, notMain>>

M_RefinedFails(r) ==
    /\ pc[r] = "refined"
    /\ RaiseInTry(r)
    /\ Logged(r, Event("refined", "", FALSE, <<>>))
    /\ UNCHANGED <<dataset_uuid, layer, index, filepath, ddir, tables, writes,
                   whVars, notMain>>

\* finally: driver.quit(); then main() returns, or the pending exception goes on.
M_Finally(r) ==
    /\ pc[r] = "finally"
    /\ pc' = [pc EXCEPT ![r] = "ended"]
    /\ outcome' = [outcome EXCEPT ![r] = IF exc[r] THEN "raised" ELSE "returned"]
    /\ Logged(r, Event("quit", "", TRUE, <<>>))
    /\ UNCHANGED <<dataset_uuid, layer, index, filepath, exc, ddir, tables, writes,
                   whVars, notMain>>

\* driver.quit() is called and raises: its error leaves main().
M_FinallyQuitRaises(r) ==
    /\ pc[r] = "finally"
    /\ pc' = [pc EXCEPT ![r] = "ended"]
    /\ outcome' = [outcome EXCEPT ![r] = "raised"]
    /\ Logged(r, Event("quit", "", FALSE, <<>>))
    /\ UNCHANGED <<dataset_uuid, layer, index, filepath, exc, ddir, tables, writes,
                   whVars, notMain>>

MainNext ==
    \/ \E r \in Runs : M_NoCredentials(r)
    \/ \E r \in Runs : M_Start(r)
    \/ \E r \in Runs : M_GetDataset(r)
    \/ \E r \in Runs : M_GetDatasetFails(r)
    \/ \E r \in Runs : M_CreateDataset(r)
    \/ \E r \in Runs : M_CreateDatasetFails(r)
    \/ \E r \in Runs : M_Setup(r)
    \/ \E r \in Runs : M_SetupFails(r)
    \/ \E r \in Runs : M_Navigate(r)
    \/ \E r \in Runs : M_NavigateFails(r)
    \/ \E r \in Runs : M_Wait(r)
    \/ \E r \in Runs : M_WaitFails(r)
    \/ \E r \in Runs : M_Excel(r)
    \/ \E r \in Runs : M_ExcelFails(r)
    \/ \E r \in Runs : M_Upload(r)
    \/ \E r \in Runs : M_UploadFails(r)
    \/ \E r \in Runs : M_Transform(r)
    \/ \E r \in Runs : M_TransformFails(r)
    \/ \E r \in Runs : M_Remove(r)
    \/ \E r \in Runs : M_RemoveFails(r)
    \/ \E r \in Runs : M_Refined(r)
    \/ \E r \in Runs : M_RefinedFails(r)
    \/ \E r \in Runs : M_Finally(r)
    \/ \E r \in Runs : M_FinallyQuitRaises(r)

-----------------------------------------------------------------------------
(* Reading an execution's log.                                              *)

LogHas(r, step, what, ok) ==
    \E k \in 1..Len(log[r]) :
        log[r][k].step = step /\ log[r][k].what = what /\ log[r][k].ok = ok

CountOf(r, step) == Cardinality({k \in 1..Len(log[r]) : log[r][k].step = step})

IsPipelineEvent(e) == e.step \notin {"quit", "credentials"}
NotQuit(e) == e.step # "quit"

\* The steps of execution r, as <<step, what>>, driver.quit() left out.
StepsOf(r) ==
    LET p == SelectSeq(log[r], IsPipelineEvent)
    IN  [k \in 1..Len(p) |-> <<p[k].step, p[k].what>>]

IsPrefix(a, b) == Len(a) <= Len(b) /\ a = SubSeq(b, 1, Len(a))

\* The driver was acquired: setup_chrome_driver returned.
Acquired(r) == LogHas(r, "setup", "", TRUE)

\* The file the download wait of index `what` returned, as a set.
DetectedBy(r, what) ==
    {log[r][k].file : k \in {j \in 1..Len(log[r]) :
                               /\ log[r][j].step = "wait"
                               /\ log[r][j].what = what
                               /\ log[r][j].ok}}

IndexNames == {INDICES[k].name : k \in 1..Len(INDICES)}

\* C1: once setup_chrome_driver has returned, driver.quit() is called exactly
\* once before main() ends, whatever step fails or none; it is never called
\* twice, and never without a driver.
C1_DriverQuitExactlyOnce ==
    \A r \in Runs :
        /\ CountOf(r, "quit") <= 1
        /\ ~Acquired(r) => CountOf(r, "quit") = 0
        /\ (Acquired(r) /\ pc[r] = "ended") => CountOf(r, "quit") = 1

\* One execution ended after a failed trusted transform, the other after
\* every step succeeded, and each called driver.quit() once.
C1_Witness ==
    /\ \A r \in Runs : pc[r] = "ended" /\ Acquired(r) /\ CountOf(r, "quit") = 1
    /\ \E r \in Runs : LogHas(r, "transform", "icf", FALSE)
    /\ \E r \in Runs : outcome[r] = "returned"

\* The order main() is to take its steps in.
CanonicalSteps ==
    << <<"provision", "raw">>, <<"provision", "trusted">>, <<"provision", "refined">>,
       <<"setup", "">>,
       <<"navigate", "icc">>, <<"wait", "icc">>, <<"excel", "icc">>,
       <<"upload", "icc">>, <<"transform", "icc">>, <<"remove", "icc">>,
       <<"navigate", "icf">>, <<"wait", "icf">>, <<"excel", "icf">>,
       <<"upload", "icf">>, <<"transform", "icf">>, <<"remove", "icf">>,
       <<"refined", "">> >>

\* C4: the steps of every execution are, at every moment, a prefix of the
\* fixed order: the three datasets, then the driver, then ICC and after it ICF,
\* each as download, normalize, raw load, trusted transform, delete; and the
\* refined transform last, once, after both trusted transforms.
C4_StepsInFixedOrder ==
    \A r \in Runs : IsPrefix(StepsOf(r), CanonicalSteps)

\* An execution went through the whole order, down to the refined transform.
C4_Witness ==
    \E r \in Runs :
        /\ StepsOf(r) = CanonicalSteps
        /\ LogHas(r, "refined", "", TRUE)

\* C5: a failure is neither caught nor retried. In every execution a failed
\* step is the last pipeline step taken (only driver.quit() may follow it), no
\* step is taken twice, an execution that ended after a failed step ended with
\* the error raised, and an execution that returned normally loaded every
\* index into its trusted table and materialized the refined table.
C5_FailureEndsTheRun ==
    \A r \in Runs :
        LET p == SelectSeq(log[r], NotQuit)
        IN  /\ \A k \in 1..Len(p) : k < Len(p) => p[k].ok
            /\ \A k, l \in 1..Len(log[r]) :
                  (log[r][k].step = log[r][l].step /\ log[r][k].what = log[r][l].what)
                      => k = l
            /\ (pc[r] = "ended" /\ \E k \in 1..Len(log[r]) : ~log[r][k].ok)
                  => outcome[r] = "raised"
            /\ outcome[r] = "returned" =>
                  /\ \A k \in 1..Len(INDICES) :
                        /\ LogHas(r, "upload", INDICES[k].name, TRUE)
                        /\ LogHas(r, "transform", INDICES[k].name, TRUE)
                        /\ tables[TrustedTable(r, k)].exists
                  /\ LogHas(r, "refined", "", TRUE)
                  /\ tables[RefinedTable(r)].exists

\* One execution returned normally; the other failed in the raw load of ICC
\* and ended with the error raised.
C5_Witness ==
    /\ \E r \in Runs : outcome[r] = "returned"
    /\ \E r \in Runs :
          /\ pc[r] = "ended"
          /\ LogHas(r, "upload", "icc", FALSE)
          /\ outcome[r] = "raised"

\* The datasets execution r uses: those its create_*_dataset calls returned for.
UsedDatasets(r) ==
    {DatasetOf(r, lay) : lay \in {l \in Layers : LogHas(r, "provision", l, TRUE)}}

\* C9: executions are isolated by the run identifier: no execution writes a
\* table in a dataset that another execution uses.
C9_RunsIsolated ==
    \A r1, r2 \in Runs :
        r1 # r2 =>
            \A w \in writes : w[1] = r1 => w[2].dataset \notin UsedDatasets(r2)

\* C10 as stated: when main() has ended, the file of every index whose raw load
\* succeeded is gone from the download directory.
C10_FileGoneAfterRawLoad ==
    \A r \in Runs :
        pc[r] = "ended" =>
            \A n \in IndexNames :
                LogHas(r, "upload", n, TRUE) => DetectedBy(r, n) \cap ddir[r] = {}

\* A later iteration of the same execution waited for a download (which may
\* have brought a file of the same name).
LaterWait(r, n) ==
    \E k, l \in 1..Len(INDICES), j \in 1..Len(log[r]) :
        /\ k < l /\ INDICES[k].name = n
        /\ log[r][j].step = "wait" /\ log[r][j].what = INDICES[l].name

C10_EndState ==
    \A r \in Runs :
        /\ \A k \in 1..Len(log[r]) :
              (log[r][k].step = "remove" /\ log[r][k].ok)
                  => DetectedBy(r, log[r][k].what) = {log[r][k].file}
        /\ pc[r] = "ended" =>
              \A n \in IndexNames :
                  LogHas(r, "upload", n, TRUE) =>
                      /\ \/ LogHas(r, "remove", n, TRUE)
                         \/ LogHas(r, "remove", n, FALSE)
                         \/ LogHas(r, "transform", n, FALSE)
                      /\ LogHas(r, "remove", n, TRUE) =>
                            (DetectedBy(r, n) \cap ddir[r] = {} \/ LaterWait(r, n))
                      /\ LogHas(r, "transform", n, FALSE) =>
                            DetectedBy(r, n) \subseteq ddir[r]

C10_IterationRemovesItsFile ==
    \A r \in Runs :
        (pc[r] = "remove" /\ pc'[r] \in {"navigate", "refined"}) =>
            /\ DetectedBy(r, INDICES[index[r]].name) = {Basename(filepath[r])}
            /\ Basename(filepath[r]) \in ddir[r]
            /\ Basename(filepath[r]) \notin ddir'[r]

\* C10, amended: every index whose raw load succeeded either completes its
\* iteration, and then that iteration's last step removes from the download
\* directory the very file the iteration detected, before the next iteration
\* or the refined transform begins (so the file is gone when main() ends,
\* unless a later download wait ran), or fails in its trusted transform or its
\* deletion, and after a failed trusted transform the file is still in the
\* directory when main() ends.
C10_FileGoneAfterCompletedIteration ==
    []C10_EndState /\ [][C10_IterationRemovesItsFile]_vars

\* An execution removed the ICC file, then loaded ICF and failed in its trusted
\* transform: the ICC file is gone and the ICF file is left.
C10_Witness ==
    \E r \in Runs :
        /\ pc[r] = "ended"
        /\ LogHas(r, "remove", "icc", TRUE)
        /\ LogHas(r, "upload", "icf", TRUE)
        /\ LogHas(r, "transform", "icf", FALSE)
        /\ DetectedBy(r, "icc") \cap ddir[r] = {}
        /\ DetectedBy(r, "icf") \subseteq ddir[r]
        /\ DetectedBy(r, "icf") # {}

-----------------------------------------------------------------------------
(* The specifications.                                                      *)

WatchIdle ==
    /\ folder = {}
    /\ files_before = {}
    /\ start_time = 0
    /\ now = 0
    /\ appeared = {}
    /\ wpc = "idle"
    /\ wresult = WNoResult

ExcelIdle ==
    /\ sheet_found = FALSE
    /\ sheet = [width |-> 0, height |-> 0]
    /\ x_table_id = <<>>
    /\ x_columns = <<>>
    /\ x_num_rows = 0
    /\ xpc = "idle"
    /\ xresult = XNone

ProvIdle ==
    /\ cpc = [c \in Callers |-> "off"]
    /\ cfun = [c \in Callers |-> "none"]
    /\ cid = [c \in Callers |-> Qualify(DatasetName("raw", "u1"))]
    /\ cres = [c \in Callers |-> "none"]
    /\ ccalls = [c \in Callers |-> 0]

RefinedIdle ==
    /\ icc_trusted = {}
    /\ icf_trusted = {}
    /\ refined = <<>>
    /\ rpc = "idle"

MainIdle ==
    /\ pc = [r \in Runs |-> "off"]
    /\ dataset_uuid = [r \in Runs |-> "none"]
    /\ layer = [r \in Runs |-> "none"]
    /\ index = [r \in Runs |-> 1]
    /\ filepath = [r \in Runs |-> <<>>]
    /\ exc = [r \in Runs |-> FALSE]
    /\ outcome = [r \in Runs |-> "running"]
    /\ log = [r \in Runs |-> <<>>]
    /\ ddir = [r \in Runs |-> {}]
    /\ tables = [t \in TableIds |-> NoTable]
    /\ writes = {}

InitWatch ==
    WatchInit /\ ExcelIdle /\ WarehouseInit /\ ProvIdle /\ RefinedIdle /\ MainIdle

InitExcel ==
    ExcelInit /\ WatchIdle /\ WarehouseInit /\ ProvIdle /\ RefinedIdle /\ MainIdle

InitProvision ==
    ProvInit /\ WatchIdle /\ ExcelIdle /\ RefinedIdle /\ MainIdle

InitRefined ==
    RefinedInit /\ WatchIdle /\ ExcelIdle /\ WarehouseInit /\ ProvIdle /\ MainIdle

InitMain ==
    MainInit /\ WatchIdle /\ ExcelIdle /\ ProvIdle /\ RefinedIdle

SpecWatch == InitWatch /\ [][WatchNext]_vars

SpecExcel == InitExcel /\ [][ExcelNext]_vars

SpecProvision == InitProvision /\ [][ProvNext]_vars

SpecRefined == InitRefined /\ [][RefinedNext]_vars

SpecMain == InitMain /\ [][MainNext]_vars

====
